---- MODULE Spec2Model ----
(***************************************************************************)
(* Teams-OpenPhone status sync (src/server.js).                            *)
(*                                                                         *)
(* The model covers the OpenPhone webhook handler, the signature verifier, *)
(* the identity mapper, the in-memory call table and the two outbound      *)
(* calls of setTeamsPresence (token endpoint, presence endpoint).          *)
(*                                                                         *)
(* Node runs one callback at a time: a handler runs from its start to its  *)
(* first await (or to its response) without interruption, is suspended     *)
(* while an outbound request is in flight, and resumes when the reply      *)
(* arrives.  Each such run-to-completion segment is one action.            *)
(*                                                                         *)
(* Left out: startTime and direction of a call record (never read by the   *)
(* handler), and all console logging.                                      *)
(*                                                                         *)
(* The handler is read as its indentation lays it out: the dispatch on     *)
(* event.type and res.status(200) both inside the try of lines 119-190.    *)
(* (As written, line 184 holds one closing brace too many.)                *)
(***************************************************************************)
EXTENDS Integers, Sequences, FiniteSets, TLC

\* ------------------------------------------------------------------ bounds
\* Number of webhook requests delivered in one behaviour; each gets its own
\* handler invocation (slot), numbered in order of arrival.
MaxHandlers == 2

Handlers == 1..MaxHandlers

\* ------------------------------------------------------------ value domains
\* JavaScript's undefined, for a property that is missing.
Undefined == "undefined"

CallIds == {"c1", "c2"}
\* One provider user that userMapping knows and one it does not.
MappedUser == "US2gwvMWKA"
UnmappedUser == "U2"
UserIds == {MappedUser, UnmappedUser}

EventTypes == {"call.ringing", "call.completed", "message.received"}

\* req.body after express.json(): type, and data.object with id and userId.
\* shape says how much of data.object exists: "noData" (event.data missing),
\* "noObject" (event.data.object missing), "object" (present; id and userId
\* may each be missing, i.e. undefined).
Bodies ==
    [type : EventTypes, shape : {"noData", "noObject"}, id : {Undefined}, userId : {Undefined}]
    \cup
    [type : EventTypes, shape : {"object"},
     id : CallIds \cup {Undefined}, userId : UserIds \cup {Undefined}]

\* A JSON text: the body it parses to and how it is laid out.  "compact" is
\* what JSON.stringify emits; "spaced" is any other layout of the same body.
Forms == {"compact", "spaced"}

JSONStringify(body) == [form |-> "compact", body |-> body]

\* ----------------------------------------------------------------- digests
\* A base64 digest string: HMAC-SHA256 is modelled as an injective function
\* of (key, message); len is the string's byte length.
DigestLen == 44

Base64Decode(secret) == <<"bin", secret>>

HmacSha256Base64(key, message) == [key |-> key, msg |-> message, len |-> DigestLen]

\* The provider's signing secret and one an attacker might use instead.
ProviderSecret == "k1"
OtherSecret == "k2"

Timestamp == "ts1"

\* process.env.OPENPHONE_WEBHOOK_SECRET: unset, empty, or the provider's.
SecretValues == {Undefined, "", ProviderSecret}

Truthy(s) == s # Undefined /\ s # ""

\* --------------------------------------------------------------- requests
\* The openphone-signature header: absent, or a string, represented by the
\* list of its ';'-separated fields.  Fields 1..3 are strings, field 4 (index
\* 3 in the code) is a digest string.
NoHeader == [present |-> FALSE, fields |-> <<>>]

HeaderOf(fields) == [present |-> TRUE, fields |-> fields]

SignedDigest(secret, text) ==
    HmacSha256Base64(Base64Decode(secret), <<Timestamp, text>>)

\* Headers a sender may attach to a request with the given body.
HeadersFor(body) ==
    \* no header, an empty header, a header of three fields
    { NoHeader,
      HeaderOf(<<"">>),
      HeaderOf(<<"hmac", "1", Timestamp>>) }
    \cup
    \* signed by the provider over the text it sent, in either layout
    { HeaderOf(<<"hmac", "1", Timestamp, SignedDigest(ProviderSecret, [form |-> f, body |-> body])>>)
        : f \in Forms }
    \cup
    \* a digest of the right length under another key
    { HeaderOf(<<"hmac", "1", Timestamp, SignedDigest(OtherSecret, JSONStringify(body))>>) }
    \cup
    \* a digest string of another length (the right digest, one byte short)
    { HeaderOf(<<"hmac", "1", Timestamp,
                 [SignedDigest(ProviderSecret, JSONStringify(body)) EXCEPT !.len = DigestLen - 1]>>) }

\* Every request that carries one of the given bodies.
RequestsWith(bodies) ==
    UNION { { [body |-> b, header |-> s] : s \in HeadersFor(b) } : b \in bodies }

Requests == RequestsWith(Bodies)

\* No direct call of the verifier (the server's own behaviours).
NoVerifierCall ==
    [secret |-> Undefined, timestamp |-> Timestamp,
     payload |-> [form |-> "compact",
                  body |-> [type |-> "message.received", shape |-> "noData",
                            id |-> Undefined, userId |-> Undefined]],
     signature |-> NoHeader, kind |-> "none"]

\* ------------------------------------------------------------------ state
VARIABLES
    secret,        \* process.env.OPENPHONE_WEBHOOK_SECRET
    activeCalls,   \* the Map activeCalls: callId -> [userId]
    pc,            \* per handler: "idle", "awaitToken", "awaitPresence", "done"
    loc,           \* per handler: the locals it holds across its awaits
    status,        \* per handler: the HTTP status it responded with (0: none yet)
    net,           \* per handler: "none", "inflight", or "lost" (never answered)
    setterCalls,   \* the calls of setTeamsPresence so far, in order
    presenceLog,   \* the presence updates the platform applied, in order
    vIn,           \* the arguments of a direct call of verifyOpenPhoneSignature
    vOut           \* its result ("none": not called yet)

\* The variables of the verifier called on its own (VerifySpec); the server's
\* actions leave them alone.
verifierVars == <<vIn, vOut>>

vars == <<secret, activeCalls, pc, loc, status, net, setterCalls, presenceLog, vIn, vOut>>

\* ------------------------------------------------------ signature verifier
\* !signature: the header is absent or the empty string.
FalsyHeader(signature) == ~signature.present \/ signature.fields = <<"">>

\* crypto.timingSafeEqual: throws RangeError on buffers of different byte
\* length, else compares the bytes.
TimingSafeEqual(a, b) ==
    IF a.len # b.len THEN "RangeError"
    ELSE IF a = b THEN "true" ELSE "false"

\* A variant that takes only an unset secret for "not configured".
MutVerifyEmptySecretConfigured(payload, signature, sec) ==
    IF FalsyHeader(signature) \/ sec = Undefined THEN "true"
    ELSE LET fields == signature.fields IN
         IF Len(fields) < 4 THEN "false"
         ELSE TimingSafeEqual(fields[4],
                 HmacSha256Base64(Base64Decode(sec), <<fields[3], payload>>))

\* verifyOpenPhoneSignature(payload, signature, secret): "true", "false", or
\* the exception it throws.
VerifyOpenPhoneSignature(payload, signature, sec) ==
    IF FalsyHeader(signature) \/ ~Truthy(sec) THEN "true"
    ELSE LET fields == signature.fields IN
         IF Len(fields) < 4 THEN "false"
         ELSE LET timestamp == fields[3]
                  providedDigest == fields[4]
                  signedData == <<timestamp, payload>>
                  signingKeyBinary == Base64Decode(sec)
                  computedDigest == HmacSha256Base64(signingKeyBinary, signedData)
              IN TimingSafeEqual(providedDigest, computedDigest)

\* Lines 121-130 of the handler: the outcome of the signature gate.
SignatureGate(r) ==
    IF Truthy(secret)
    THEN VerifyOpenPhoneSignature(JSONStringify(r.body), r.header, secret)
    ELSE "true"

\* ---------------------------------------------------------- identity mapper
\* A variant that falls back to a default account for an unknown user.
MutGetTeamsUserWithDefault(openPhoneUserId) == "Tyler@WindsorM.com"

GetTeamsUserFromOpenPhoneUser(openPhoneUserId) ==
    IF openPhoneUserId = MappedUser THEN "Tyler@WindsorM.com" ELSE Undefined

\* ------------------------------------------------------------- call table
\* A slip that keys the record by the provider user instead of the call.
MutActiveCallsSetKeyedByUser(calls, callId, userId) ==
    [k \in DOMAIN calls \cup {userId} |->
        IF k = userId THEN [userId |-> userId] ELSE calls[k]]

\* activeCalls.set(callId, {userId, ...})
ActiveCallsSet(calls, callId, userId) ==
    [k \in DOMAIN calls \cup {callId} |->
        IF k = callId THEN [userId |-> userId] ELSE calls[k]]

\* activeCalls.get(callId): the record, or nothing (the empty sequence)
ActiveCallsGet(calls, callId) ==
    IF callId \in DOMAIN calls THEN <<calls[callId]>> ELSE <<>>

\* A slip that reads the record and forgets to delete it.
MutActiveCallsDeleteKeeps(calls, callId) == calls

\* activeCalls.delete(callId)
ActiveCallsDelete(calls, callId) ==
    [k \in DOMAIN calls \ {callId} |-> calls[k]]

\* ---------------------------------------------------------- presence mapper
RingingDirective == <<"Busy", "InACall">>
CompletedDirective == <<"Available", "Available">>

\* ------------------------------------------------------------- the handler
NoLocals ==
    [type |-> Undefined, callId |-> Undefined, userId |-> Undefined,
     teamsUser |-> Undefined, activeCall |-> <<>>, directive |-> <<>>]

\* res.status(code).send(...): the handler is finished.
Respond(h, code) ==
    /\ pc' = [pc EXCEPT ![h] = "done"]
    /\ status' = [status EXCEPT ![h] = code]
    /\ net' = [net EXCEPT ![h] = "none"]

\* await setTeamsPresence(teamsUser, availability, activity), up to its first
\* await: the token request is sent and the handler is suspended.
CallSetTeamsPresence(h, teamsUser, directive) ==
    /\ setterCalls' = Append(setterCalls,
            [h |-> h, user |-> teamsUser, directive |-> directive])
    /\ pc' = [pc EXCEPT ![h] = "awaitToken"]
    /\ net' = [net EXCEPT ![h] = "inflight"]
    /\ UNCHANGED status

\* Lines 141-161: the call.ringing branch, event.data.object present.
HandleRinging(h, callData) ==
    LET openPhoneUserId == callData.userId
        callId == callData.id
        teamsUser == GetTeamsUserFromOpenPhoneUser(openPhoneUserId)
    IN /\ activeCalls' = ActiveCallsSet(activeCalls, callId, openPhoneUserId)
       /\ loc' = [loc EXCEPT ![h] =
                    [type |-> "call.ringing", callId |-> callId,
                     userId |-> openPhoneUserId, teamsUser |-> teamsUser,
                     activeCall |-> <<>>,
                     directive |-> IF teamsUser # Undefined THEN RingingDirective ELSE <<>>]]
       /\ IF teamsUser # Undefined
          THEN CallSetTeamsPresence(h, teamsUser, RingingDirective)
          ELSE Respond(h, 200) /\ UNCHANGED setterCalls

\* A variant that resets the presence only for a call it had tracked.
MutCompletedSetsPresenceIfTracked(teamsUser, activeCall) ==
    teamsUser # Undefined /\ activeCall # <<>>

\* Line 175, if (teamsUser): whether the completed branch calls the setter.
\* The record read at line 169 (activeCall) plays no part in it.
CompletedSetsPresence(teamsUser, activeCall) == teamsUser # Undefined

\* Lines 164-182: the call.completed branch, event.data.object present.
HandleCompleted(h, callData) ==
    LET callId == callData.id
        openPhoneUserId == callData.userId
        activeCall == ActiveCallsGet(activeCalls, callId)
        teamsUser == GetTeamsUserFromOpenPhoneUser(openPhoneUserId)
    IN /\ activeCalls' = ActiveCallsDelete(activeCalls, callId)
       /\ loc' = [loc EXCEPT ![h] =
                    [type |-> "call.completed", callId |-> callId,
                     userId |-> openPhoneUserId, teamsUser |-> teamsUser,
                     activeCall |-> activeCall,
                     directive |-> IF CompletedSetsPresence(teamsUser, activeCall)
                                   THEN CompletedDirective ELSE <<>>]]
       /\ IF CompletedSetsPresence(teamsUser, activeCall)
          THEN CallSetTeamsPresence(h, teamsUser, CompletedDirective)
          ELSE Respond(h, 200) /\ UNCHANGED setterCalls

\* The catch of the handler (lines 187-190): any exception becomes a 500.
CaughtError(h) ==
    /\ Respond(h, 500)
    /\ UNCHANGED <<activeCalls, loc, setterCalls>>

\* A slip that turns the second test into a plain else: every type that is
\* not call.ringing is treated as call.completed.
MutHandleEventElseCompleted(h, event) ==
    IF event.shape # "object"
    THEN CaughtError(h)
    ELSE IF event.type = "call.ringing"
         THEN HandleRinging(h, event)
         ELSE HandleCompleted(h, event)

\* Lines 132-186: the event is dispatched on its type.  event.data.object on
\* a missing data, and callData.userId on a missing object, throw TypeError
\* before the table is touched.
HandleEvent(h, event) ==
    IF event.type \in {"call.ringing", "call.completed"}
    THEN IF event.shape # "object"
         THEN CaughtError(h)
         ELSE IF event.type = "call.ringing"
              THEN HandleRinging(h, event)
              ELSE HandleCompleted(h, event)
    ELSE Respond(h, 200) /\ UNCHANGED <<activeCalls, loc, setterCalls>>

\* A variant that records a ringing call before it looks at the signature.
MutReceiveTracksBeforeGate(h, r) ==
    /\ pc[h] = "idle"
    /\ \A g \in 1..(h - 1) : pc[g] # "idle"
    /\ LET gate == SignatureGate(r) IN
       CASE gate = "RangeError" -> CaughtError(h)
         [] gate = "false" ->
              /\ Respond(h, 401)
              /\ activeCalls' = IF r.body.type = "call.ringing" /\ r.body.shape = "object"
                                THEN ActiveCallsSet(activeCalls, r.body.id, r.body.userId)
                                ELSE activeCalls
              /\ UNCHANGED <<loc, setterCalls>>
         [] OTHER -> HandleEvent(h, r.body)
    /\ UNCHANGED <<secret, presenceLog>>
    /\ UNCHANGED verifierVars

\* app.post('/webhook/openphone'): request r is delivered to handler h, which
\* runs to its first await or to its response.
Receive(h, r) ==
    /\ pc[h] = "idle"
    /\ \A g \in 1..(h - 1) : pc[g] # "idle"
    /\ LET gate == SignatureGate(r) IN
       CASE gate = "RangeError" -> CaughtError(h)
         [] gate = "false" ->
              Respond(h, 401) /\ UNCHANGED <<activeCalls, loc, setterCalls>>
         [] OTHER -> HandleEvent(h, r.body)
    /\ UNCHANGED <<secret, presenceLog>>
    /\ UNCHANGED verifierVars

\* ------------------------------------------------- outbound calls' replies
\* getTeamsAccessToken resolves: setTeamsPresence sends the presence request.
TokenOk(h) ==
    /\ pc[h] = "awaitToken" /\ net[h] = "inflight"
    /\ pc' = [pc EXCEPT ![h] = "awaitPresence"]
    /\ UNCHANGED <<secret, activeCalls, loc, status, net, setterCalls, presenceLog>>
    /\ UNCHANGED verifierVars

\* getTeamsAccessToken rejects: it rethrows, setTeamsPresence lets the error
\* through (the await is outside its try), the handler's catch answers 500.
TokenFail(h) ==
    /\ pc[h] = "awaitToken" /\ net[h] = "inflight"
    /\ Respond(h, 500)
    /\ UNCHANGED <<secret, activeCalls, loc, setterCalls, presenceLog>>
    /\ UNCHANGED verifierVars

\* The presence endpoint applies the update and answers 2xx: setTeamsPresence
\* returns and the handler answers 200.
PresenceOk(h) ==
    /\ pc[h] = "awaitPresence" /\ net[h] = "inflight"
    /\ presenceLog' = Append(presenceLog,
            [h |-> h, user |-> loc[h].teamsUser, directive |-> loc[h].directive])
    /\ Respond(h, 200)
    /\ UNCHANGED <<secret, activeCalls, loc, setterCalls>>
    /\ UNCHANGED verifierVars

\* A variant that undoes the handler's tracker change when the update fails.
MutPresenceFailRollsBack(h) ==
    /\ pc[h] = "awaitPresence" /\ net[h] = "inflight"
    /\ Respond(h, 500)
    /\ activeCalls' =
          IF loc[h].type = "call.ringing"
          THEN ActiveCallsDelete(activeCalls, loc[h].callId)
          ELSE IF loc[h].activeCall # <<>>
               THEN ActiveCallsSet(activeCalls, loc[h].callId, loc[h].activeCall[1].userId)
               ELSE activeCalls
    /\ UNCHANGED <<secret, loc, setterCalls, presenceLog>>
    /\ UNCHANGED verifierVars

\* The presence request fails: setTeamsPresence rethrows, the handler's
\* catch answers 500.
PresenceFail(h) ==
    /\ pc[h] = "awaitPresence" /\ net[h] = "inflight"
    /\ Respond(h, 500)
    /\ UNCHANGED <<secret, activeCalls, loc, setterCalls, presenceLog>>
    /\ UNCHANGED verifierVars

\* The endpoint never answers the request in flight; axios is given no
\* timeout (lines 32-43, 63-76), so the promise never settles.
NeverAnswered(h) ==
    /\ pc[h] \in {"awaitToken", "awaitPresence"} /\ net[h] = "inflight"
    /\ net' = [net EXCEPT ![h] = "lost"]
    /\ UNCHANGED <<secret, activeCalls, pc, loc, status, setterCalls, presenceLog>>
    /\ UNCHANGED verifierVars

\* ------------------------------------------------------------ specification
Init ==
    /\ secret \in SecretValues
    /\ activeCalls = <<>>
    /\ pc = [h \in Handlers |-> "idle"]
    /\ loc = [h \in Handlers |-> NoLocals]
    /\ status = [h \in Handlers |-> 0]
    /\ net = [h \in Handlers |-> "none"]
    /\ setterCalls = <<>>
    /\ presenceLog = <<>>
    /\ vIn = NoVerifierCall
    /\ vOut = "none"

\* ---------------------------------------------------------- other endpoints
\* The remaining routes answer from what they read and write none of the
\* server's state; their responses are not part of the state.

\* POST /webhook/teams: logs the body and answers 200.
WebhookTeams == UNCHANGED vars

\* A variant of /health that also empties the call table.
MutHealthClears ==
    /\ activeCalls' = <<>>
    /\ UNCHANGED <<secret, pc, loc, status, net, setterCalls, presenceLog, vIn, vOut>>

\* GET /health: answers activeCalls.size.
Health == UNCHANGED vars

\* GET /status: answers the entries of activeCalls.
Status == UNCHANGED vars

\* GET and POST /setup-webhooks: setupOpenPhoneWebhooks() sends one POST to
\* the telephony provider's API and its result or error is answered.
SetupWebhooks == UNCHANGED vars

\* GET /config-check.
ConfigCheck == UNCHANGED vars

\* GET /debug-env.
DebugEnv == UNCHANGED vars

Next ==
    \/ \E h \in Handlers, r \in Requests : Receive(h, r)
    \/ \E h \in Handlers : TokenOk(h)
    \/ \E h \in Handlers : TokenFail(h)
    \/ \E h \in Handlers : PresenceOk(h)
    \/ \E h \in Handlers : PresenceFail(h)
    \/ \E h \in Handlers : NeverAnswered(h)
    \/ WebhookTeams
    \/ Health
    \/ Status
    \/ SetupWebhooks
    \/ ConfigCheck
    \/ DebugEnv

Spec == Init /\ [][Next]_vars

\* ------------------------------------------- the verifier called on its own
\* Inputs of verifyOpenPhoneSignature: a configured secret, a timestamp and
\* a payload text, with the header a sender holding the secret builds.
VerifierSecrets == {ProviderSecret, OtherSecret}
VerifierTimestamps == {Timestamp, "ts2"}
VerifierPayloads ==
    { [form |-> f, body |-> b] : f \in Forms,
        b \in { x \in Bodies : x.type = "call.ringing" /\ x.shape = "object"
                                /\ x.id \in CallIds } }

SignatureFor(sec, timestamp, payload) ==
    HeaderOf(<<"hmac", "1", timestamp,
               HmacSha256Base64(Base64Decode(sec), <<timestamp, payload>>)>>)

ValidVerifierInputs ==
    { [secret |-> k, timestamp |-> t, payload |-> p,
       signature |-> SignatureFor(k, t, p), kind |-> "valid"]
        : k \in VerifierSecrets, t \in VerifierTimestamps, p \in VerifierPayloads }

\* The other value of a one-byte difference: "c1"/"c2", "ts1"/"ts2".
OtherCallId(id) == IF id = "c1" THEN "c2" ELSE "c1"
OtherTimestamp(t) == IF t = Timestamp THEN "ts2" ELSE Timestamp

\* Where one byte of the input is replaced by another byte:
\*   "payload"    a byte of the payload (the call id's digit);
\*   "scheme", "version", "timestamp", "digest"
\*                a byte inside that field of the header, not made a ';';
\*   "separator"  the ';' before the digest, made another byte: the last
\*                two fields run together;
\*   "split"      a byte inside the digest made a ';': the digest field is
\*                cut short and a fifth field follows.
TamperKinds ==
    {"payload", "scheme", "version", "timestamp", "digest", "separator", "split"}

TamperedFields(f, kind) ==
    CASE kind = "scheme" -> <<"hmaX", f[2], f[3], f[4]>>
      [] kind = "version" -> <<f[1], "2", f[3], f[4]>>
      [] kind = "timestamp" -> <<f[1], f[2], OtherTimestamp(f[3]), f[4]>>
      [] kind = "digest" -> <<f[1], f[2], f[3], [f[4] EXCEPT !.key = <<"bit", f[4].key>>]>>
      [] kind = "separator" -> <<f[1], f[2], "ts?digest">>
      [] kind = "split" -> <<f[1], f[2], f[3], [f[4] EXCEPT !.len = 10],
                             [f[4] EXCEPT !.len = DigestLen - 11]>>
      [] OTHER -> f

Tampered(in, kind) ==
    [in EXCEPT
       !.kind = kind,
       !.payload = IF kind = "payload"
                   THEN [@ EXCEPT !.body.id = OtherCallId(@)]
                   ELSE @,
       !.signature = HeaderOf(TamperedFields(@.fields, kind))]

\* verifyOpenPhoneSignature(payload, signature, secret) is called.
VerifyCall ==
    /\ vIn.kind # "none" /\ vOut = "none"
    /\ vOut' = VerifyOpenPhoneSignature(vIn.payload, vIn.signature, vIn.secret)
    /\ UNCHANGED <<secret, activeCalls, pc, loc, status, net, setterCalls, presenceLog, vIn>>

\* After a valid input was verified, one byte of it is replaced and the
\* result is taken again.
Tamper(kind) ==
    /\ vIn.kind = "valid" /\ vOut = "true"
    /\ vIn' = Tampered(vIn, kind)
    /\ vOut' = "none"
    /\ UNCHANGED <<secret, activeCalls, pc, loc, status, net, setterCalls, presenceLog>>

VerifyInit ==
    /\ secret = ProviderSecret
    /\ activeCalls = <<>>
    /\ pc = [h \in Handlers |-> "idle"]
    /\ loc = [h \in Handlers |-> NoLocals]
    /\ status = [h \in Handlers |-> 0]
    /\ net = [h \in Handlers |-> "none"]
    /\ setterCalls = <<>>
    /\ presenceLog = <<>>
    /\ vIn \in ValidVerifierInputs
    /\ vOut = "none"

VerifyNext ==
    \/ VerifyCall
    \/ \E kind \in TamperKinds : Tamper(kind)

VerifySpec == VerifyInit /\ [][VerifyNext]_vars

\* Fairness of the event loop: a reply that arrives is handed to the waiting
\* handler.  Whether an endpoint answers at all is up to the endpoint
\* (NeverAnswered), and no fairness is assumed of the event source.
FairSpec ==
    /\ Spec
    /\ \A h \in Handlers :
          WF_vars(TokenOk(h) \/ TokenFail(h) \/ PresenceOk(h) \/ PresenceFail(h))

\* ---------------------------------------------------------------- helpers
Awaiting == {"awaitToken", "awaitPresence"}

\* A call event whose data.object carries an id and a userId.
WellFormed(body) ==
    body.shape = "object" /\ body.id # Undefined /\ body.userId # Undefined

\* The well-formed bodies of one event type.
CallEventBodies(type) ==
    [type : {type}, shape : {"object"}, id : CallIds, userId : UserIds]

IsCallEvent(body) == body.type \in {"call.ringing", "call.completed"}

Mapped(body) == GetTeamsUserFromOpenPhoneUser(body.userId) # Undefined

\* The last directive the platform applied for a user (<<>>: none so far).
RECURSIVE LastDirective(_, _)
LastDirective(log, user) ==
    IF log = <<>> THEN <<>>
    ELSE IF log[Len(log)].user = user THEN log[Len(log)].directive
    ELSE LastDirective(SubSeq(log, 1, Len(log) - 1), user)

Position(log, h) == CHOOSE i \in 1..Len(log) : log[i].h = h

SetterCallOf(h, body, directive) ==
    [h |-> h, user |-> GetTeamsUserFromOpenPhoneUser(body.userId), directive |-> directive]

\* The step is handler h taking an event with this body past the signature
\* gate (Receive of a request that carries it and that the gate lets through).
Handles(h, body) ==
    /\ pc[h] = "idle"
    /\ HandleEvent(h, body)
    /\ UNCHANGED <<secret, presenceLog>>

\* ------------------------------------------------------------------ claims

\* C1: when a signature-valid call event for a mapped user is handled and the
\* downstream call fails (token acquisition or presence update throws), the
\* handler still responds 200; a downstream failure never produces a 5xx.
C1_DownstreamFailureAnswers200 ==
    [][\A h \in Handlers :
          (loc[h].callId \in CallIds /\ (TokenFail(h) \/ PresenceFail(h)))
             => status'[h] = 200]_vars

\* C2: with a secret configured and the signature header absent, verify
\* returns false, the handler answers 401, and neither the tracker nor the
\* presence-setter is touched.
AbsentHeaderRequests == { r \in Requests : ~r.header.present }

C2_AbsentHeaderRejected ==
    [][\A h \in Handlers :
          (pc[h] = "idle" /\ pc'[h] # "idle" /\ Truthy(secret)) =>
             \A r \in AbsentHeaderRequests :
                Receive(h, r) =>
                   /\ VerifyOpenPhoneSignature(JSONStringify(r.body), r.header, secret) = "false"
                   /\ status'[h] = 401
                   /\ activeCalls' = activeCalls
                   /\ setterCalls' = setterCalls]_vars

\* C3: every accepted call.completed event of a mapped user issues the
\* directive (Available, Available) and raises no error, whether or not the
\* tracker held a record for the callId; afterwards the tracker holds no
\* record for that callId.
CompletedMappedBodies == { b \in CallEventBodies("call.completed") : Mapped(b) }

C3_CompletedAlwaysSetsAvailable ==
    [][\A h \in Handlers :
          (pc[h] = "idle" /\ pc'[h] # "idle") =>
             \A b \in CompletedMappedBodies :
                Handles(h, b) =>
                   /\ setterCalls' = Append(setterCalls,
                         SetterCallOf(h, b, <<"Available", "Available">>))
                   /\ b.id \notin DOMAIN activeCalls'
                   /\ pc'[h] = "awaitToken" /\ status'[h] = 0]_vars

\* C3 witness: a completed event of a mapped user found no record for its
\* callId, and the setter was called with (Available, Available).
C3_Witness ==
    \E h \in Handlers :
       /\ loc[h].type = "call.completed" /\ loc[h].callId \in CallIds
       /\ loc[h].teamsUser # Undefined
       /\ loc[h].activeCall = <<>>
       /\ \E i \in 1..Len(setterCalls) :
             setterCalls[i].h = h /\ setterCalls[i].directive = <<"Available", "Available">>
       /\ loc[h].callId \notin DOMAIN activeCalls

\* C4: in every quiescent state (no handler in progress, every presence
\* update succeeded) in which the tracker holds a record owned by a mapped
\* user, the last directive applied for that user is (Busy, InACall).
Quiescent ==
    /\ \A h \in Handlers : pc[h] \in {"idle", "done"}
    /\ \A i \in 1..Len(setterCalls) : status[setterCalls[i].h] = 200

\* Every call event taken so far carried an id and a userId (so that what
\* follows does not rest on how malformed events are treated).
AllWellFormed ==
    \A h \in Handlers :
       loc[h].type # Undefined => (loc[h].callId \in CallIds /\ loc[h].userId \in UserIds)

C4_BusyWhileCallActive ==
    (Quiescent /\ AllWellFormed) =>
       \A k \in DOMAIN activeCalls :
          GetTeamsUserFromOpenPhoneUser(activeCalls[k].userId) # Undefined =>
             LastDirective(presenceLog,
                GetTeamsUserFromOpenPhoneUser(activeCalls[k].userId)) = <<"Busy", "InACall">>

\* C5: when a call.ringing and then a call.completed of the same call (mapped
\* user) are received in that order and both handlers finish successfully,
\* the two presence updates reach the platform in that order and the user's
\* final presence is (Available, Available).
C5_RingingThenCompletedEndsAvailable ==
    \A h1, h2 \in Handlers :
       ( /\ h1 < h2
         /\ loc[h1].type = "call.ringing" /\ loc[h2].type = "call.completed"
         /\ loc[h1].callId \in CallIds /\ loc[h1].callId = loc[h2].callId
         /\ loc[h1].teamsUser # Undefined /\ loc[h2].teamsUser = loc[h1].teamsUser
         /\ status[h1] = 200 /\ status[h2] = 200
         /\ \A i \in 1..Len(setterCalls) : setterCalls[i].h \in {h1, h2} )
       => /\ Position(presenceLog, h1) < Position(presenceLog, h2)
          /\ LastDirective(presenceLog, loc[h1].teamsUser) = <<"Available", "Available">>

\* C6: with a secret configured and a header of at least 4 fields, a provided
\* digest whose length differs from the computed digest's makes verification
\* fail with false (handler answers 401); no exception, no 500.
WrongLengthRequests ==
    { r \in Requests :
        r.header.present /\ Len(r.header.fields) >= 4
        /\ r.header.fields[4].len # DigestLen }

C6_WrongLengthDigestRejected ==
    [][\A h \in Handlers :
          (pc[h] = "idle" /\ pc'[h] # "idle" /\ Truthy(secret)) =>
             \A r \in WrongLengthRequests :
                Receive(h, r) =>
                   /\ VerifyOpenPhoneSignature(JSONStringify(r.body), r.header, secret) = "false"
                   /\ status'[h] = 401]_vars

\* C7: a malformed call.ringing or call.completed event (data, data.object,
\* id or userId missing) is a no-op: the tracker is unchanged and no presence
\* call is issued.
MalformedRequests ==
    { r \in Requests : IsCallEvent(r.body) /\ ~WellFormed(r.body) }

C7_MalformedEventIsNoOp ==
    [][\A h \in Handlers :
          (pc[h] = "idle" /\ pc'[h] # "idle") =>
             \A r \in MalformedRequests :
                Receive(h, r) =>
                   /\ activeCalls' = activeCalls
                   /\ setterCalls' = setterCalls]_vars

\* C8: every inbound webhook event eventually receives a response, even when
\* the token endpoint or the presence endpoint never answers.
C8_EveryEventAnswered ==
    \A h \in Handlers : (pc[h] # "idle") ~> (status[h] # 0)

\* C9: every accepted call.ringing event of a mapped user leaves a record for
\* its callId in the tracker and calls the presence-setter exactly once, with
\* (Busy, InACall), also when a record for the callId already existed.
RingingMappedBodies == { b \in CallEventBodies("call.ringing") : Mapped(b) }

C9_RingingSetsBusyAndTracks ==
    [][\A h \in Handlers :
          (pc[h] = "idle" /\ pc'[h] # "idle") =>
             \A b \in RingingMappedBodies :
                Handles(h, b) =>
                   /\ b.id \in DOMAIN activeCalls'
                   /\ activeCalls'[b.id] = [userId |-> b.userId]
                   /\ DOMAIN activeCalls' = DOMAIN activeCalls \cup {b.id}
                   /\ \A k \in DOMAIN activeCalls \ {b.id} : activeCalls'[k] = activeCalls[k]
                   /\ setterCalls' = Append(setterCalls,
                         SetterCallOf(h, b, <<"Busy", "InACall">>))]_vars

\* C9 witness: a duplicate call.ringing: two ringing events of a mapped user
\* for the same callId, each with its own (Busy, InACall) setter call, and the
\* record in the tracker.
C9_Witness ==
    \E h1, h2 \in Handlers :
       /\ h1 < h2
       /\ loc[h1].type = "call.ringing" /\ loc[h2].type = "call.ringing"
       /\ loc[h1].callId \in CallIds /\ loc[h2].callId = loc[h1].callId
       /\ loc[h1].teamsUser # Undefined /\ loc[h2].teamsUser # Undefined
       /\ Len(setterCalls) = 2
       /\ \A i \in 1..2 : setterCalls[i].directive = <<"Busy", "InACall">>
       /\ loc[h1].callId \in DOMAIN activeCalls

\* C10: from an empty tracker, a call.ringing immediately followed by a
\* call.completed with the same callId removes exactly the record the ringing
\* created (same callId, same provider user) and leaves the tracker empty;
\* for a mapped user the second event calls the setter with (Available,
\* Available).

\* The tracker is what a ringing event of handler g made of an empty one.
JustRang(g) ==
    /\ loc[g].type = "call.ringing" /\ loc[g].callId \in CallIds
    /\ loc[g].userId \in UserIds
    /\ DOMAIN activeCalls = {loc[g].callId}
    /\ activeCalls[loc[g].callId] = [userId |-> loc[g].userId]

C10_RingingThenCompletedEmptiesTracker ==
    [][\A h \in Handlers \ {1} :
          (pc[h] = "idle" /\ pc'[h] # "idle" /\ JustRang(h - 1)) =>
             \A b \in CallEventBodies("call.completed") :
                (b.id = loc[h - 1].callId /\ Handles(h, b)) =>
                   /\ loc'[h].activeCall = <<[userId |-> loc[h - 1].userId]>>
                   /\ Cardinality(DOMAIN activeCalls') = 0
                   /\ Mapped(b) =>
                         setterCalls' = Append(setterCalls,
                            SetterCallOf(h, b, <<"Available", "Available">>))]_vars

\* C10 witness: ringing then completed for the same call of a mapped user;
\* the completed handler took the ringing's record out and the tracker is
\* empty.
C10_Witness ==
    \E h \in Handlers \ {1} :
       /\ loc[h - 1].type = "call.ringing" /\ loc[h].type = "call.completed"
       /\ loc[h].callId \in CallIds /\ loc[h].callId = loc[h - 1].callId
       /\ loc[h].activeCall = <<[userId |-> loc[h - 1].userId]>>
       /\ loc[h].teamsUser # Undefined
       /\ activeCalls = <<>>
       /\ pc[h] = "awaitToken"

\* C11: a failure of the presence-setter call does not roll back the tracker
\* mutation: the step in which the token request or the presence request
\* fails leaves the tracker as the handler's first part left it (the record
\* of a ringing event stays, the record of a completed event stays removed),
\* and the failure reaches the handler (its catch answers).
C11_FailureKeepsTrackerMutation ==
    [][\A h \in Handlers :
          (TokenFail(h) \/ PresenceFail(h)) =>
             /\ activeCalls' = activeCalls
             /\ pc'[h] = "done" /\ status'[h] = 500
             /\ presenceLog' = presenceLog]_vars

\* C11 witness: a ringing event whose presence update failed, its record
\* still in the tracker.
C11_Witness ==
    \E h \in Handlers :
       /\ loc[h].type = "call.ringing" /\ loc[h].callId \in CallIds
       /\ loc[h].teamsUser # Undefined
       /\ pc[h] = "done" /\ status[h] = 500
       /\ loc[h].callId \in DOMAIN activeCalls
       /\ activeCalls[loc[h].callId] = [userId |-> loc[h].userId]

\* C12: an accepted event whose type is neither call.ringing nor
\* call.completed yields no directive: the handler answers 200, leaves the
\* tracker unchanged and makes no token or presence call, whatever else the
\* body holds.
OtherTypeBodies == { b \in Bodies : ~IsCallEvent(b) }

C12_OtherTypesIgnored ==
    [][\A h \in Handlers :
          (pc[h] = "idle" /\ pc'[h] # "idle") =>
             \A b \in OtherTypeBodies :
                Handles(h, b) =>
                   /\ pc'[h] = "done" /\ status'[h] = 200
                   /\ activeCalls' = activeCalls
                   /\ setterCalls' = setterCalls
                   /\ net'[h] = "none"]_vars

\* C12 witness: with a call tracked, a later event was answered 200 without
\* any of the handler's call locals being set (no ringing or completed
\* branch ran), and the only setter call is the earlier event's.
C12_Witness ==
    \E h \in Handlers \ {1} :
       /\ loc[1].type = "call.ringing" /\ loc[1].callId \in DOMAIN activeCalls
       /\ pc[h] = "done" /\ status[h] = 200 /\ loc[h] = NoLocals
       /\ \A i \in 1..Len(setterCalls) : setterCalls[i].h # h

\* C13: for an accepted call.ringing or call.completed event whose provider
\* user has no identity mapping, no presence-setter (and no token) call is
\* made, the handler answers 200, and the tracker is still updated: the
\* record is inserted on ringing and removed on completed.
UnmappedBodies(type) == { b \in CallEventBodies(type) : b.userId = UnmappedUser }

C13_UnmappedUserTrackedOnly ==
    [][\A h \in Handlers :
          (pc[h] = "idle" /\ pc'[h] # "idle") =>
             /\ \A b \in UnmappedBodies("call.ringing") :
                   Handles(h, b) =>
                      /\ setterCalls' = setterCalls /\ net'[h] = "none"
                      /\ pc'[h] = "done" /\ status'[h] = 200
                      /\ b.id \in DOMAIN activeCalls'
                      /\ activeCalls'[b.id] = [userId |-> b.userId]
             /\ \A b \in UnmappedBodies("call.completed") :
                   Handles(h, b) =>
                      /\ setterCalls' = setterCalls /\ net'[h] = "none"
                      /\ pc'[h] = "done" /\ status'[h] = 200
                      /\ b.id \notin DOMAIN activeCalls']_vars

\* C13 witness: ringing then completed of an unmapped user's call: both
\* answered 200, the record taken out again, no setter call at all.
C13_Witness ==
    \E h \in Handlers \ {1} :
       /\ loc[h - 1].type = "call.ringing" /\ loc[h - 1].userId = UnmappedUser
       /\ loc[h].type = "call.completed" /\ loc[h].userId = UnmappedUser
       /\ loc[h].callId \in CallIds /\ loc[h].callId = loc[h - 1].callId
       /\ loc[h].activeCall = <<[userId |-> UnmappedUser]>>
       /\ status[h - 1] = 200 /\ status[h] = 200
       /\ setterCalls = <<>> /\ activeCalls = <<>>

\* C14: for every (secret, timestamp, payload), verify returns true on the
\* header whose field 2 is the timestamp and whose field 3 is the digest of
\* timestamp + "." + payload under the secret, and false after any
\* single-byte mutation of the payload or of the header.
C14_ValidTrueAndEveryMutationFalse ==
    vOut # "none" =>
       /\ vIn.kind = "valid" => vOut = "true"
       /\ vIn.kind \in TamperKinds => vOut = "false"

\* Requests the provider signed over the body text it sent (rawText, in
\* either layout) with the configured secret.
CorrectlySignedRequests ==
    { [body |-> b,
       header |-> HeaderOf(<<"hmac", "1", Timestamp,
                             SignedDigest(ProviderSecret, [form |-> f, body |-> b])>>)]
        : f \in Forms, b \in CallEventBodies("call.ringing") }

\* C15: every request whose header carries the correct digest of
\* timestamp + "." + the raw body text as received is accepted (never
\* answered 401), also when re-serializing the parsed body gives another text.
C15_RawBodySignatureAccepted ==
    [][\A h \in Handlers :
          (secret = ProviderSecret /\ pc[h] = "idle" /\ pc'[h] # "idle") =>
             \A r \in CorrectlySignedRequests :
                Receive(h, r) => status'[h] # 401]_vars

\* C16: with no secret configured (unset or empty) the verifier returns true
\* for every payload and every header, absent header included, and the
\* handler processes the event without answering 401.
C16_NoSecretAcceptsEverything ==
    [][\A h \in Handlers :
          (secret \in {Undefined, ""} /\ pc[h] = "idle" /\ pc'[h] # "idle") =>
             /\ status'[h] # 401
             /\ \A b \in RingingMappedBodies :
                   Handles(h, b) =>
                      \A s \in HeadersFor(b) :
                         /\ VerifyOpenPhoneSignature(JSONStringify(b), s, secret) = "true"
                         /\ Receive(h, [body |-> b, header |-> s])]_vars

\* The empty secret is set and a ringing event was taken in and tracked.
C16_Witness ==
    /\ secret = ""
    /\ \E h \in Handlers :
          /\ loc[h].type = "call.ringing" /\ loc[h].callId \in CallIds
          /\ loc[h].callId \in DOMAIN activeCalls
          /\ status[h] # 401

\* Requests whose header is present and has fewer than four fields.
ShortHeaderRequests ==
    { r \in RequestsWith(RingingMappedBodies) :
         r.header.present /\ Len(r.header.fields) < 4 }

\* C17: with a secret configured, a header that splits into fewer than four
\* fields makes the verifier return false and the handler answer 401.
C17_ShortHeaderRejected ==
    [][\A h \in Handlers :
          (Truthy(secret) /\ pc[h] = "idle" /\ pc'[h] # "idle") =>
             \A r \in ShortHeaderRequests :
                Receive(h, r) =>
                   /\ VerifyOpenPhoneSignature(JSONStringify(r.body), r.header, secret) = "false"
                   /\ status'[h] = 401]_vars

\* C18: the call table is mutated only by the tracker operations of the
\* telephony webhook handler, on a ringing or completed event; the other
\* routes and the continuations of the presence-setter leave it unchanged.
C18_OnlyTelephonyHandlerMutatesTable ==
    [][/\ (WebhookTeams \/ Health \/ Status \/ SetupWebhooks \/ ConfigCheck \/ DebugEnv)
             => activeCalls' = activeCalls
       /\ \A h \in Handlers :
             (TokenOk(h) \/ TokenFail(h) \/ PresenceOk(h) \/ PresenceFail(h)
                \/ NeverAnswered(h)) => activeCalls' = activeCalls
       /\ activeCalls' # activeCalls =>
             \E h \in Handlers :
                /\ pc[h] = "idle" /\ pc'[h] # "idle"
                /\ loc'[h].type \in {"call.ringing", "call.completed"}
                /\ \A g \in Handlers \ {h} : pc'[g] = pc[g]]_vars

\* A ringing event's record is still in the table after the presence-setter
\* ran to its end for it.
C18_Witness ==
    \E h \in Handlers :
       /\ loc[h].type = "call.ringing" /\ loc[h].callId \in CallIds
       /\ pc[h] = "done" /\ status[h] = 200
       /\ Len(presenceLog) = 1 /\ presenceLog[1].h = h
       /\ loc[h].callId \in DOMAIN activeCalls

\* C19: a request answered 401 has no effect: the tracker is unchanged and no
\* token or presence call is made, whatever event type or call id it carries.
C19_RejectedRequestHasNoEffect ==
    [][\A h \in Handlers :
          (pc[h] = "idle" /\ status'[h] = 401) =>
             /\ pc'[h] = "done"
             /\ activeCalls' = activeCalls
             /\ setterCalls' = setterCalls
             /\ net' = net
             /\ presenceLog' = presenceLog
             /\ loc' = loc]_vars

\* A request was rejected while an earlier ringing call is tracked.
C19_Witness ==
    \E g, h \in Handlers :
       /\ g < h
       /\ loc[g].type = "call.ringing" /\ loc[g].callId \in CallIds
       /\ loc[g].callId \in DOMAIN activeCalls
       /\ pc[h] = "done" /\ status[h] = 401
       /\ Len(setterCalls) <= 1

\* The handlers, in arrival order, that took in an accepted, well-formed
\* ringing or completed event for call c (handlers are started in the order
\* of their index).
TookInFor(c) ==
    { h \in Handlers :
         /\ pc[h] # "idle"
         /\ loc[h].type \in {"call.ringing", "call.completed"}
         /\ loc[h].callId = c
         /\ loc[h].userId \in UserIds }

\* C20: under every interleaving, a call id is in the tracker exactly when
\* the most recently received well-formed, accepted ringing or completed
\* event for it was a ringing one, whatever presence calls are pending or
\* have failed.
C20_TrackerReflectsArrivalOrder ==
    \A c \in CallIds :
       c \in DOMAIN activeCalls <=>
          \E h \in TookInFor(c) :
             /\ loc[h].type = "call.ringing"
             /\ \A g \in TookInFor(c) : g <= h

====
